---- MODULE Spec2Model ----
(***************************************************************************)
(* The transaction-application state machine of ledger-rs:                 *)
(* Transaction::append_to (src/src/transaction.rs) applied by the driver   *)
(* loop of main (src/src/main.rs) to a Ledger of accounts and stored       *)
(* transactions.                                                           *)
(*                                                                         *)
(* Amounts are f64 in the source.  The model draws them from whole numbers *)
(* of small magnitude, on which f64 addition, subtraction and comparison   *)
(* are exact, so Integers arithmetic computes what the code computes.      *)
(* An Option<T> is a sequence of length at most one: <<>> is None and      *)
(* <<v>> is Some(v).  A Result<T, E> is the record Ok(v) or Err(e).        *)
(***************************************************************************)
EXTENDS Integers, Sequences, FiniteSets, TLC

\* Bounds of the model: client ids 1..MaxClient, transaction ids 1..MaxTx,
\* amounts -MaxAmount..MaxAmount (the amount field is signed and unchecked).
\* A dispute of a withdrawal followed by its resolve adds the amount to
\* available_funds every time round, so balances have no bound of their own:
\* the model follows a run while every balance stays within
\* -MaxBalance..MaxBalance.  An input file has at most MaxRecords rows.
\* Where the f64 arithmetic itself is followed, amounts are 0.1 .. MaxTenths
\* tenths and a run has at most MaxTransfers deposits and withdrawals, with
\* at most MaxDisputes more rows where disputes and resolves are followed too.
MaxClient == 2
MaxTx == 2
MaxAmount == 1
MaxBalance == 2
MaxRecords == 2
MaxTenths == 3
MaxTransfers == 3
MaxDisputes == 2

ClientIds == 1..MaxClient
TxIds == 1..MaxTx
AmountValues == (-MaxAmount)..MaxAmount
Amounts == {<<>>} \cup {<<a>> : a \in AmountValues}

TransactionType == {"Deposit", "Withdrawal", "Dispute", "Resolve", "Chargeback"}

TransactionError ==
    {"Malformed", "DuplicateTransactionID", "InsufficientFunds",
     "TransactionNotFound", "NotDisputed", "AlreadyDisputed", "Indisputable",
     "AccountLocked", "Unauthorized"}

\* A record as the reader deserializes it: `disputed` is #[serde(skip)], so
\* every input record carries the default, false.
Transaction ==
    [tx_type : TransactionType, client_id : ClientIds, tx_id : TxIds,
     amount : Amounts, disputed : {FALSE}]

\* The records the model feeds to append_to.  A dispute, resolve or chargeback
\* row carries no amount; append_to never reads the amount of such a record.
Inputs ==
    {tx \in Transaction :
        tx.tx_type \in {"Deposit", "Withdrawal"} \/ tx.amount = <<>>}

Ok(v) == [ok |-> TRUE, val |-> v]
Err(e) == [ok |-> FALSE, err |-> e]

\* HashMap::insert: the map with key k bound to v.
Insert(m, k, v) == [x \in (DOMAIN m) \cup {k} |-> IF x = k THEN v ELSE m[x]]

Account_new(id) ==
    [client_id |-> id, held_funds |-> 0, available_funds |-> 0,
     total_funds |-> 0, is_locked |-> FALSE]

Ledger_new(transactions, accounts) ==
    [transactions |-> transactions, accounts |-> accounts]

is_disputed(tx) == IF ~tx.disputed THEN Err("NotDisputed") ELSE Ok(TRUE)

is_not_disputed(tx) == IF tx.disputed THEN Err("AlreadyDisputed") ELSE Ok(TRUE)

\* Faulty variant: a missing amount counts as zero.
get_amount_or_zero(tx) == IF tx.amount = <<>> THEN Ok(0) ELSE Ok(tx.amount[1])

get_amount(tx) == IF tx.amount = <<>> THEN Err("Malformed") ELSE Ok(tx.amount[1])

\* entry(client_id).or_insert_with(Account::new): the map afterwards.
or_insert_account(tx, accounts) ==
    IF tx.client_id \in DOMAIN accounts
    THEN accounts
    ELSE Insert(accounts, tx.client_id, Account_new(tx.client_id))

\* The Result of get_account; the inserted entry stays whatever it returns.
get_account(tx, accounts) ==
    LET account == or_insert_account(tx, accounts)[tx.client_id]
    IN  IF account.is_locked THEN Err("AccountLocked") ELSE Ok(account)

\* Faulty variant: a missing transaction is reported as not disputed.
get_referenced_tx_missing_not_disputed(tx, transactions) ==
    IF tx.tx_id \notin DOMAIN transactions
    THEN Err("NotDisputed")
    ELSE LET referenced_tx == transactions[tx.tx_id]
         IN  IF tx.client_id # referenced_tx.client_id
             THEN Err("Unauthorized")
             ELSE IF referenced_tx.tx_type \notin {"Deposit", "Withdrawal"}
                  THEN Err("Indisputable")
                  ELSE Ok(referenced_tx)

\* Faulty variant: the lookup without the ownership check.
get_referenced_tx_of_anyone(tx, transactions) ==
    IF tx.tx_id \notin DOMAIN transactions
    THEN Err("TransactionNotFound")
    ELSE LET referenced_tx == transactions[tx.tx_id]
         IN  IF referenced_tx.tx_type \notin {"Deposit", "Withdrawal"}
             THEN Err("Indisputable")
             ELSE Ok(referenced_tx)

get_referenced_tx(tx, transactions) ==
    IF tx.tx_id \notin DOMAIN transactions
    THEN Err("TransactionNotFound")
    ELSE LET referenced_tx == transactions[tx.tx_id]
         IN  IF tx.client_id # referenced_tx.client_id
             THEN Err("Unauthorized")
             ELSE IF referenced_tx.tx_type \notin {"Deposit", "Withdrawal"}
                  THEN Err("Indisputable")
                  ELSE Ok(referenced_tx)

\* What append_to hands back: the ledger as it leaves it, and its return value.
Outcome(transactions, accounts, result) ==
    [ledger |-> Ledger_new(transactions, accounts), result |-> result]

\* append_to, lines 226-244: a Deposit or Withdrawal is inserted under its
\* tx_id first; when that displaces a record, the displaced record is put
\* back and the call ends with DuplicateTransactionID.
\* Faulty variant: records of every type are stored.
insert_transaction_of_any_type(tx, ledger) ==
    LET old == IF tx.tx_id \in DOMAIN ledger.transactions
               THEN <<ledger.transactions[tx.tx_id]>>
               ELSE <<>>
        inserted == Insert(ledger.transactions, tx.tx_id, tx)
    IN  IF old # <<>>
        THEN Outcome(Insert(inserted, tx.tx_id, old[1]), ledger.accounts,
                     IF tx.tx_type \in {"Deposit", "Withdrawal"}
                     THEN "DuplicateTransactionID" ELSE "Ok")
        ELSE Outcome(inserted, ledger.accounts, "Ok")

\* Faulty variant: the displaced record is not put back.
insert_transaction_keeps_new(tx, ledger) ==
    IF tx.tx_type \in {"Deposit", "Withdrawal"}
    THEN Outcome(Insert(ledger.transactions, tx.tx_id, tx), ledger.accounts,
                 IF tx.tx_id \in DOMAIN ledger.transactions
                 THEN "DuplicateTransactionID" ELSE "Ok")
    ELSE Outcome(ledger.transactions, ledger.accounts, "Ok")

insert_transaction(tx, ledger) ==
    IF tx.tx_type \in {"Deposit", "Withdrawal"}
    THEN LET old == IF tx.tx_id \in DOMAIN ledger.transactions
                    THEN <<ledger.transactions[tx.tx_id]>>
                    ELSE <<>>
             inserted == Insert(ledger.transactions, tx.tx_id, tx)
         IN  IF old # <<>>
             THEN Outcome(Insert(inserted, tx.tx_id, old[1]), ledger.accounts,
                          "DuplicateTransactionID")
             ELSE Outcome(inserted, ledger.accounts, "Ok")
    ELSE Outcome(ledger.transactions, ledger.accounts, "Ok")

\* account.total_funds = account.available_funds + account.held_funds
recompute_total(account) ==
    [account EXCEPT !.total_funds = account.available_funds + account.held_funds]

\* The assignments that end each arm, on the caller's account.
deposit_effect(account, amount) ==
    recompute_total([account EXCEPT !.available_funds = @ + amount])

withdrawal_effect(account, amount) ==
    recompute_total([account EXCEPT !.available_funds = @ - amount])

\* Faulty variant: a dispute that leaves total_funds as it was.
dispute_stale_total(account, referenced_tx, amount) ==
    [account EXCEPT !.available_funds =
                        IF referenced_tx.tx_type = "Deposit"
                        THEN @ - amount ELSE @,
                    !.held_funds = @ + amount]

\* Faulty variant: a dispute debits available_funds whatever the record is.
dispute_always_debits(account, referenced_tx, amount) ==
    recompute_total(
        [account EXCEPT !.available_funds = @ - amount,
                        !.held_funds = @ + amount])

\* Faulty variant: a dispute freezes the account at once.
dispute_locks(account, referenced_tx, amount) ==
    recompute_total(
        [account EXCEPT !.available_funds =
                            IF referenced_tx.tx_type = "Deposit"
                            THEN @ - amount ELSE @,
                        !.held_funds = @ + amount,
                        !.is_locked = TRUE])

dispute_effect(account, referenced_tx, amount) ==
    recompute_total(
        [account EXCEPT !.available_funds =
                            IF referenced_tx.tx_type = "Deposit"
                            THEN @ - amount ELSE @,
                        !.held_funds = @ + amount])

\* Faulty variant: a resolve releases held funds without crediting them.
resolve_without_credit(account, amount) ==
    recompute_total([account EXCEPT !.held_funds = @ - amount])

resolve_effect(account, amount) ==
    recompute_total(
        [account EXCEPT !.available_funds = @ + amount,
                        !.held_funds = @ - amount])

\* Faulty variant: a chargeback that leaves total_funds as it was.
chargeback_stale_total(account, amount) ==
    [account EXCEPT !.is_locked = TRUE, !.held_funds = @ - amount]

\* Faulty variant: a chargeback that takes the amount from available_funds too.
chargeback_debits_available(account, amount) ==
    recompute_total(
        [account EXCEPT !.is_locked = TRUE,
                        !.held_funds = @ - amount,
                        !.available_funds = @ - amount])

\* Faulty variant: a chargeback that leaves the account unlocked.
chargeback_without_lock(account, amount) ==
    recompute_total([account EXCEPT !.held_funds = @ - amount])

chargeback_effect(account, amount) ==
    recompute_total(
        [account EXCEPT !.is_locked = TRUE, !.held_funds = @ - amount])

\* Faulty variant: a withdrawal of the whole available balance is refused.
insufficient_funds_at_equal(amount, account) == amount >= account.available_funds

\* if amount > account.available_funds
insufficient_funds(amount, account) == amount > account.available_funds

\* The arms of the second match of append_to.  Each is given the ledger as
\* the first match left it and yields the ledger and the value returned.
Deposit(tx, ledger) ==
    LET amount == get_amount(tx)
        accounts == or_insert_account(tx, ledger.accounts)
        account == get_account(tx, ledger.accounts)
    IN  IF ~amount.ok
        THEN Outcome(ledger.transactions, ledger.accounts, amount.err)
        ELSE IF ~account.ok
        THEN Outcome(ledger.transactions, accounts, account.err)
        ELSE Outcome(ledger.transactions,
                     Insert(accounts, tx.client_id,
                            deposit_effect(account.val, amount.val)),
                     "Ok")

\* Faulty variant: the withdrawal debits first and checks the balance after.
withdrawal_debits_before_check(tx, ledger) ==
    LET amount == get_amount(tx)
        accounts == or_insert_account(tx, ledger.accounts)
        account == get_account(tx, ledger.accounts)
        debited == Insert(accounts, tx.client_id,
                          withdrawal_effect(account.val, amount.val))
    IN  IF ~amount.ok
        THEN Outcome(ledger.transactions, ledger.accounts, amount.err)
        ELSE IF ~account.ok
        THEN Outcome(ledger.transactions, accounts, account.err)
        ELSE IF debited[tx.client_id].available_funds < 0
        THEN Outcome(ledger.transactions, debited, "InsufficientFunds")
        ELSE Outcome(ledger.transactions, debited, "Ok")

Withdrawal(tx, ledger) ==
    LET amount == get_amount(tx)
        accounts == or_insert_account(tx, ledger.accounts)
        account == get_account(tx, ledger.accounts)
    IN  IF ~amount.ok
        THEN Outcome(ledger.transactions, ledger.accounts, amount.err)
        ELSE IF ~account.ok
        THEN Outcome(ledger.transactions, accounts, account.err)
        ELSE IF insufficient_funds(amount.val, account.val)
        THEN Outcome(ledger.transactions, accounts, "InsufficientFunds")
        ELSE Outcome(ledger.transactions,
                     Insert(accounts, tx.client_id,
                            withdrawal_effect(account.val, amount.val)),
                     "Ok")

Dispute(tx, ledger) ==
    LET accounts == or_insert_account(tx, ledger.accounts)
        account == get_account(tx, ledger.accounts)
        referenced_tx == get_referenced_tx(tx, ledger.transactions)
    IN  IF ~account.ok
        THEN Outcome(ledger.transactions, accounts, account.err)
        ELSE IF ~referenced_tx.ok
        THEN Outcome(ledger.transactions, accounts, referenced_tx.err)
        ELSE IF ~get_amount(referenced_tx.val).ok
        THEN Outcome(ledger.transactions, accounts,
                     get_amount(referenced_tx.val).err)
        ELSE IF ~is_not_disputed(referenced_tx.val).ok
        THEN Outcome(ledger.transactions, accounts,
                     is_not_disputed(referenced_tx.val).err)
        ELSE LET amount == get_amount(referenced_tx.val).val
                 disputed == [referenced_tx.val EXCEPT !.disputed = TRUE]
             IN  Outcome(Insert(ledger.transactions, tx.tx_id, disputed),
                         Insert(accounts, tx.client_id,
                                dispute_effect(account.val, disputed, amount)),
                         "Ok")

Resolve(tx, ledger) ==
    LET accounts == or_insert_account(tx, ledger.accounts)
        account == get_account(tx, ledger.accounts)
        referenced_tx == get_referenced_tx(tx, ledger.transactions)
    IN  IF ~account.ok
        THEN Outcome(ledger.transactions, accounts, account.err)
        ELSE IF ~referenced_tx.ok
        THEN Outcome(ledger.transactions, accounts, referenced_tx.err)
        ELSE IF ~get_amount(referenced_tx.val).ok
        THEN Outcome(ledger.transactions, accounts,
                     get_amount(referenced_tx.val).err)
        ELSE IF ~is_disputed(referenced_tx.val).ok
        THEN Outcome(ledger.transactions, accounts,
                     is_disputed(referenced_tx.val).err)
        ELSE LET amount == get_amount(referenced_tx.val).val
                 settled == [referenced_tx.val EXCEPT !.disputed = FALSE]
             IN  Outcome(Insert(ledger.transactions, tx.tx_id, settled),
                         Insert(accounts, tx.client_id,
                                resolve_effect(account.val, amount)),
                         "Ok")

Chargeback(tx, ledger) ==
    LET accounts == or_insert_account(tx, ledger.accounts)
        account == get_account(tx, ledger.accounts)
        referenced_tx == get_referenced_tx(tx, ledger.transactions)
    IN  IF ~account.ok
        THEN Outcome(ledger.transactions, accounts, account.err)
        ELSE IF ~referenced_tx.ok
        THEN Outcome(ledger.transactions, accounts, referenced_tx.err)
        ELSE IF ~get_amount(referenced_tx.val).ok
        THEN Outcome(ledger.transactions, accounts,
                     get_amount(referenced_tx.val).err)
        ELSE IF ~is_disputed(referenced_tx.val).ok
        THEN Outcome(ledger.transactions, accounts,
                     is_disputed(referenced_tx.val).err)
        ELSE LET amount == get_amount(referenced_tx.val).val
                 settled == [referenced_tx.val EXCEPT !.disputed = FALSE]
             IN  Outcome(Insert(ledger.transactions, tx.tx_id, settled),
                         Insert(accounts, tx.client_id,
                                chargeback_effect(account.val, amount)),
                         "Ok")

append_to(tx, ledger) ==
    LET first == insert_transaction(tx, ledger)
    IN  IF first.result # "Ok"
        THEN first
        ELSE CASE tx.tx_type = "Deposit" -> Deposit(tx, first.ledger)
               [] tx.tx_type = "Withdrawal" -> Withdrawal(tx, first.ledger)
               [] tx.tx_type = "Dispute" -> Dispute(tx, first.ledger)
               [] tx.tx_type = "Resolve" -> Resolve(tx, first.ledger)
               [] tx.tx_type = "Chargeback" -> Chargeback(tx, first.ledger)

(***************************************************************************)
(* The balances as the code holds them: f64 (account.rs, transaction.rs).  *)
(* A balance is modelled bit for bit as the whole number of units of       *)
(* 2^-FracBits it is worth, written in digits of LimbBits bits each, the   *)
(* lowest digit first.  Every multiple of the unit below 2^(Bits -         *)
(* FracBits) with at most MantissaBits significant bits is an f64, and the *)
(* sums and differences of the amounts followed here stay in that range,   *)
(* far from the subnormal and the overflow ends of the format.             *)
(***************************************************************************)
Bits == 64
MantissaBits == 53
LimbBits == Bits \div 4
Limbs == Bits \div LimbBits
FracBits == Bits - 4

RECURSIVE Pow2(_)
Pow2(n) == IF n = 0 THEN 1 ELSE 2 * Pow2(n - 1)

Base == Pow2(LimbBits)

Zero_f64 == [i \in 1..Limbs |-> 0]

\* Bit k of x, bit 0 the lowest.
Bit(x, k) == (x[k \div LimbBits + 1] \div Pow2(k % LimbBits)) % 2

\* Digits i .. Limbs of the exact sum of a and b, given the carry into digit i.
RECURSIVE SumFrom(_, _, _, _)
SumFrom(a, b, i, carry) ==
    IF i > Limbs THEN <<>>
    ELSE <<(a[i] + b[i] + carry) % Base>>
            \o SumFrom(a, b, i + 1, (a[i] + b[i] + carry) \div Base)

ExactSum(a, b) == SumFrom(a, b, 1, 0)

\* Digits i .. Limbs of the exact difference a - b, where a >= b, given the
\* borrow out of digit i.
RECURSIVE DifferenceFrom(_, _, _, _)
DifferenceFrom(a, b, i, borrow) ==
    IF i > Limbs THEN <<>>
    ELSE <<(Base + a[i] - b[i] - borrow) % Base>>
            \o DifferenceFrom(a, b, i + 1,
                              IF a[i] - b[i] - borrow < 0 THEN 1 ELSE 0)

ExactDifference(a, b) == DifferenceFrom(a, b, 1, 0)

\* The f64 comparison a > b.
f64_gt(a, b) ==
    \E i \in 1..Limbs :
        /\ a[i] > b[i]
        /\ \A j \in (i + 1)..Limbs : a[j] = b[j]

\* IEEE 754 round to nearest, ties to even, of the exact value x (plus a
\* positive part below the unit where `inexact`) to MantissaBits significant
\* bits: `last` is the lowest bit kept.
Round(x, inexact) ==
    LET set == {k \in 0..(Bits - 1) : Bit(x, k) = 1}
        top == CHOOSE k \in set : \A j \in set : j <= k
        last == top - (MantissaBits - 1)
        low(i) == (i - 1) * LimbBits
        kept == [i \in 1..Limbs |->
                    IF last <= low(i) THEN x[i]
                    ELSE IF last >= low(i) + LimbBits THEN 0
                    ELSE (x[i] \div Pow2(last - low(i))) * Pow2(last - low(i))]
        ulp == [i \in 1..Limbs |->
                    IF low(i) <= last /\ last < low(i) + LimbBits
                    THEN Pow2(last - low(i)) ELSE 0]
        half == Bit(x, last - 1) = 1
        below == inexact \/ \E j \in 0..(last - 2) : Bit(x, j) = 1
    IN  IF set = {} THEN x
        ELSE IF last <= 0 THEN x
        ELSE IF half /\ (below \/ Bit(x, last) = 1) THEN ExactSum(kept, ulp)
        ELSE ExactSum(kept, Zero_f64)

\* f64 addition and subtraction (of a smaller from a larger value): the
\* exact result, rounded.
f64_add(a, b) == Round(ExactSum(a, b), FALSE)
f64_sub(a, b) == Round(ExactDifference(a, b), FALSE)

\* Long division by ten of the digits i .. 1 of n, given the remainder of the
\* digits above: the digits of the quotient, and the remainder.
RECURSIVE QuotientFrom(_, _, _)
QuotientFrom(n, i, rem) ==
    IF i = 0 THEN <<>>
    ELSE QuotientFrom(n, i - 1, (Base * rem + n[i]) % 10)
            \o <<(Base * rem + n[i]) \div 10>>

RECURSIVE RemainderFrom(_, _, _)
RemainderFrom(n, i, rem) ==
    IF i = 0 THEN rem ELSE RemainderFrom(n, i - 1, (Base * rem + n[i]) % 10)

\* The f64 the reader parses from the decimal text of `tenths` tenths, as
\* "0.3" for 3: the f64 nearest to tenths / 10.  The numerator is tenths
\* units of 2^FracBits, which lie in the highest digit.
f64_from_tenths(tenths) ==
    LET n == [i \in 1..Limbs |->
                 IF i = Limbs
                 THEN tenths * Pow2(FracBits - (Limbs - 1) * LimbBits)
                 ELSE 0]
    IN  Round(QuotientFrom(n, Limbs, 0), RemainderFrom(n, Limbs, 0) # 0)

Account_new_f64(id) ==
    [client_id |-> id, held_funds |-> Zero_f64, available_funds |-> Zero_f64,
     total_funds |-> Zero_f64, is_locked |-> FALSE]

recompute_total_f64(account) ==
    [account EXCEPT
        !.total_funds = f64_add(account.available_funds, account.held_funds)]

deposit_effect_f64(account, amount) ==
    recompute_total_f64(
        [account EXCEPT !.available_funds = f64_add(@, amount)])

withdrawal_effect_f64(account, amount) ==
    recompute_total_f64(
        [account EXCEPT !.available_funds = f64_sub(@, amount)])

\* append_to of a Deposit or a Withdrawal, lines 226-264, with the amount
\* and the balances as f64.
append_to_f64(tx, ledger) ==
    LET first == insert_transaction(tx, ledger)
        amount == get_amount(tx)
        accounts ==
            IF tx.client_id \in DOMAIN ledger.accounts
            THEN ledger.accounts
            ELSE Insert(ledger.accounts, tx.client_id,
                        Account_new_f64(tx.client_id))
        account == accounts[tx.client_id]
    IN  IF first.result # "Ok"
        THEN first
        ELSE IF ~amount.ok
        THEN Outcome(first.ledger.transactions, ledger.accounts, amount.err)
        ELSE IF account.is_locked
        THEN Outcome(first.ledger.transactions, accounts, "AccountLocked")
        ELSE IF tx.tx_type = "Deposit"
        THEN Outcome(first.ledger.transactions,
                     Insert(accounts, tx.client_id,
                            deposit_effect_f64(account, amount.val)),
                     "Ok")
        ELSE IF f64_gt(amount.val, account.available_funds)
        THEN Outcome(first.ledger.transactions, accounts, "InsufficientFunds")
        ELSE Outcome(first.ledger.transactions,
                     Insert(accounts, tx.client_id,
                            withdrawal_effect_f64(account, amount.val)),
                     "Ok")

dispute_effect_f64(account, referenced_tx, amount) ==
    recompute_total_f64(
        [account EXCEPT !.available_funds =
                            IF referenced_tx.tx_type = "Deposit"
                            THEN f64_sub(@, amount) ELSE @,
                        !.held_funds = f64_add(@, amount)])

resolve_effect_f64(account, amount) ==
    recompute_total_f64(
        [account EXCEPT !.available_funds = f64_add(@, amount),
                        !.held_funds = f64_sub(@, amount)])

\* The Dispute and Resolve arms of append_to, lines 265-290, with the
\* balances as f64.
Dispute_f64(tx, ledger) ==
    LET accounts == or_insert_account(tx, ledger.accounts)
        account == get_account(tx, ledger.accounts)
        referenced_tx == get_referenced_tx(tx, ledger.transactions)
    IN  IF ~account.ok
        THEN Outcome(ledger.transactions, accounts, account.err)
        ELSE IF ~referenced_tx.ok
        THEN Outcome(ledger.transactions, accounts, referenced_tx.err)
        ELSE IF ~get_amount(referenced_tx.val).ok
        THEN Outcome(ledger.transactions, accounts,
                     get_amount(referenced_tx.val).err)
        ELSE IF ~is_not_disputed(referenced_tx.val).ok
        THEN Outcome(ledger.transactions, accounts,
                     is_not_disputed(referenced_tx.val).err)
        ELSE LET amount == get_amount(referenced_tx.val).val
                 disputed == [referenced_tx.val EXCEPT !.disputed = TRUE]
             IN  Outcome(Insert(ledger.transactions, tx.tx_id, disputed),
                         Insert(accounts, tx.client_id,
                                dispute_effect_f64(account.val, disputed,
                                                   amount)),
                         "Ok")

Resolve_f64(tx, ledger) ==
    LET accounts == or_insert_account(tx, ledger.accounts)
        account == get_account(tx, ledger.accounts)
        referenced_tx == get_referenced_tx(tx, ledger.transactions)
    IN  IF ~account.ok
        THEN Outcome(ledger.transactions, accounts, account.err)
        ELSE IF ~referenced_tx.ok
        THEN Outcome(ledger.transactions, accounts, referenced_tx.err)
        ELSE IF ~get_amount(referenced_tx.val).ok
        THEN Outcome(ledger.transactions, accounts,
                     get_amount(referenced_tx.val).err)
        ELSE IF ~is_disputed(referenced_tx.val).ok
        THEN Outcome(ledger.transactions, accounts,
                     is_disputed(referenced_tx.val).err)
        ELSE LET amount == get_amount(referenced_tx.val).val
                 settled == [referenced_tx.val EXCEPT !.disputed = FALSE]
             IN  Outcome(Insert(ledger.transactions, tx.tx_id, settled),
                         Insert(accounts, tx.client_id,
                                resolve_effect_f64(account.val, amount)),
                         "Ok")

(***************************************************************************)
(* The state.  `ledger` is the Ledger main owns.  The other three record   *)
(* the latest pass of main's loop: `call` is the record it applied,        *)
(* `result` what append_to returned for it, and `entry` the ledger as that *)
(* call found it.                                                          *)
(*                                                                         *)
(* The other five are the run of main over one input file: `input` is the  *)
(* rows of the file, `rest` the rows the reader has not yet yielded, `pc`  *)
(* where main stands, `applied` the records main has passed to append_to   *)
(* with what each call returned, and `output` the rows written to stdout.  *)
(*                                                                         *)
(* `settled` remembers how disputes ended: the tx_ids a Resolve has        *)
(* succeeded on, and those a Chargeback has succeeded on.                  *)
(***************************************************************************)
VARIABLES ledger, call, result, entry, input, rest, pc, applied, output,
          settled

vars ==
    <<ledger, call, result, entry, input, rest, pc, applied, output, settled>>

\* Before any record, no dispute has been settled.
NeverSettled == [resolved |-> {}, charged_back |-> {}]

\* The variables of a run over one file.
run == <<input, rest, pc, applied, output>>

\* Before the first record no call has been made.
NoCall ==
    [tx_type |-> "None", client_id |-> 0, tx_id |-> 0, amount |-> <<>>,
     disputed |-> FALSE]

Init ==
    /\ ledger = Ledger_new(<<>>, <<>>)
    /\ call = NoCall
    /\ result = "None"
    /\ entry = Ledger_new(<<>>, <<>>)
    /\ input = <<>>
    /\ rest = <<>>
    /\ pc = "loop"
    /\ applied = <<>>
    /\ output = {}
    /\ settled = NeverSettled

\* Every balance of the ledger lies within the model's range.
InRange(l) ==
    \A c \in DOMAIN l.accounts :
        /\ l.accounts[c].available_funds \in (-MaxBalance)..MaxBalance
        /\ l.accounts[c].held_funds \in (-MaxBalance)..MaxBalance

\* One pass of the loop of main: the next record is applied to the ledger and
\* the returned Result is dropped, so the loop goes on after an error.
Apply(tx) ==
    \E out \in {append_to(tx, ledger)} :
        /\ InRange(out.ledger)
        /\ ledger' = out.ledger
        /\ result' = out.result
        /\ call' = tx
        /\ entry' = ledger
        /\ UNCHANGED <<run, settled>>

ApplyDeposit == \E tx \in Inputs : tx.tx_type = "Deposit" /\ Apply(tx)
ApplyWithdrawal == \E tx \in Inputs : tx.tx_type = "Withdrawal" /\ Apply(tx)
ApplyDispute == \E tx \in Inputs : tx.tx_type = "Dispute" /\ Apply(tx)
ApplyResolve == \E tx \in Inputs : tx.tx_type = "Resolve" /\ Apply(tx)
ApplyChargeback == \E tx \in Inputs : tx.tx_type = "Chargeback" /\ Apply(tx)

Next ==
    \/ ApplyDeposit
    \/ ApplyWithdrawal
    \/ ApplyDispute
    \/ ApplyResolve
    \/ ApplyChargeback

Spec == Init /\ [][Next]_vars

\* One pass of the loop of main, as Apply, with the way the dispute ended
\* remembered.
ApplySettling(tx) ==
    \E out \in {append_to(tx, ledger)} :
        /\ InRange(out.ledger)
        /\ ledger' = out.ledger
        /\ result' = out.result
        /\ call' = tx
        /\ entry' = ledger
        /\ settled' =
              IF out.result = "Ok" /\ tx.tx_type = "Resolve"
              THEN [settled EXCEPT !.resolved = @ \cup {tx.tx_id}]
              ELSE IF out.result = "Ok" /\ tx.tx_type = "Chargeback"
              THEN [settled EXCEPT !.charged_back = @ \cup {tx.tx_id}]
              ELSE settled
        /\ UNCHANGED run

\* The records followed where the ends of disputes are remembered: those
\* whose amount, where they carry one, is above zero.
SettlingInputs == {tx \in Inputs : tx.amount = <<>> \/ tx.amount[1] > 0}

NextSettling == \E tx \in SettlingInputs : ApplySettling(tx)

SpecSettling == Init /\ [][NextSettling]_vars

(***************************************************************************)
(* The run of main over one file.  A row of the file is what the reader's  *)
(* deserialize yields for it: Ok of a record, or Err where the row does    *)
(* not parse.                                                              *)
(***************************************************************************)
Rows == {Ok(tx) : tx \in Inputs} \cup {Err("ParseError")}

InputFiles == UNION {[1..n -> Rows] : n \in 0..MaxRecords}

\* main up to its loop: an empty ledger and a reader at the start of the file.
InitMain ==
    /\ ledger = Ledger_new(<<>>, <<>>)
    /\ call = NoCall
    /\ result = "None"
    /\ entry = Ledger_new(<<>>, <<>>)
    /\ input \in InputFiles
    /\ rest = input
    /\ pc = "loop"
    /\ applied = <<>>
    /\ output = {}
    /\ settled = NeverSettled

\* A loop that leaves at the first error append_to returns, as the `?` of the
\* tests' create_test_ledger does.
ApplyRecord_until_error ==
    /\ pc = "loop"
    /\ rest # <<>>
    /\ Head(rest).ok
    /\ \E out \in {append_to(Head(rest).val, ledger)} :
        /\ ledger' = out.ledger
        /\ result' = out.result
        /\ call' = Head(rest).val
        /\ entry' = ledger
        /\ applied' =
              Append(applied, [tx |-> Head(rest).val, result |-> out.result])
        /\ pc' = IF out.result = "Ok" THEN "loop" ELSE "failed"
    /\ rest' = Tail(rest)
    /\ UNCHANGED <<input, output, settled>>

\* One pass of the loop over a row that parsed: the record is applied and the
\* returned Result is dropped.
ApplyRecord ==
    /\ pc = "loop"
    /\ rest # <<>>
    /\ Head(rest).ok
    /\ \E out \in {append_to(Head(rest).val, ledger)} :
        /\ ledger' = out.ledger
        /\ result' = out.result
        /\ call' = Head(rest).val
        /\ entry' = ledger
        /\ applied' =
              Append(applied, [tx |-> Head(rest).val, result |-> out.result])
    /\ rest' = Tail(rest)
    /\ UNCHANGED <<input, pc, output, settled>>

\* One pass of the loop over a row that did not parse: expect panics.
ParsePanic ==
    /\ pc = "loop"
    /\ rest # <<>>
    /\ ~Head(rest).ok
    /\ pc' = "panicked"
    /\ UNCHANGED <<ledger, call, result, entry, input, rest, applied, output,
                   settled>>

\* After the loop: every account of the ledger is written, in no fixed order.
WriteAccounts ==
    /\ pc = "loop"
    /\ rest = <<>>
    /\ output' = {ledger.accounts[c] : c \in DOMAIN ledger.accounts}
    /\ pc' = "done"
    /\ UNCHANGED <<ledger, call, result, entry, input, rest, applied, settled>>

NextMain ==
    \/ ApplyRecord
    \/ ParsePanic
    \/ WriteAccounts

\* main is one thread and each pass of its loop ends, so a step that is
\* possible is taken.
SpecMain == InitMain /\ [][NextMain]_vars /\ WF_vars(NextMain)

(***************************************************************************)
(* The run of main with the balances as f64, over deposits and withdrawals *)
(* of one client.                                                          *)
(***************************************************************************)
\* One pass of the loop of main over a row of the given type for client 1,
\* with a tx_id not used before and the amount text of `tenths` tenths: the
\* reader parses the amount to an f64 and the record is applied.  `applied`
\* keeps the row as it was written, with the amount in tenths.
ApplyF64(type, tenths) ==
    LET row == [tx_type |-> type, client_id |-> 1,
                tx_id |-> Len(applied) + 1, amount |-> <<tenths>>,
                disputed |-> FALSE]
        tx == [row EXCEPT !.amount = <<f64_from_tenths(tenths)>>]
        out == append_to_f64(tx, ledger)
    IN  /\ Len(applied) < MaxTransfers
        /\ ledger' = out.ledger
        /\ result' = out.result
        /\ call' = tx
        /\ entry' = ledger
        /\ applied' = Append(applied, [tx |-> row, result |-> out.result])
        /\ UNCHANGED <<input, rest, pc, output, settled>>

DepositF64 == \E tenths \in 1..MaxTenths : ApplyF64("Deposit", tenths)
WithdrawalF64 == \E tenths \in 1..MaxTenths : ApplyF64("Withdrawal", tenths)

NextF64 ==
    \/ DepositF64
    \/ WithdrawalF64

SpecF64 == Init /\ [][NextF64]_vars

\* One pass of the loop of main over a dispute or resolve row of client 1
\* that names a stored record.  The f64 model holds no negative balance: a
\* dispute of a deposit larger than available_funds is not followed.
ApplyReferenceF64(type, id) ==
    LET tx == [tx_type |-> type, client_id |-> 1, tx_id |-> id,
               amount |-> <<>>, disputed |-> FALSE]
        referenced_tx == ledger.transactions[id]
        out == IF type = "Dispute" THEN Dispute_f64(tx, ledger)
               ELSE Resolve_f64(tx, ledger)
    IN  /\ Len(applied) < MaxTransfers + MaxDisputes
        /\ (type = "Dispute" /\ referenced_tx.tx_type = "Deposit")
              => ~f64_gt(referenced_tx.amount[1],
                         ledger.accounts[1].available_funds)
        /\ ledger' = out.ledger
        /\ result' = out.result
        /\ call' = tx
        /\ entry' = ledger
        /\ applied' = Append(applied, [tx |-> tx, result |-> out.result])
        /\ UNCHANGED <<input, rest, pc, output, settled>>

DisputeF64 ==
    \E id \in DOMAIN ledger.transactions : ApplyReferenceF64("Dispute", id)
ResolveF64 ==
    \E id \in DOMAIN ledger.transactions : ApplyReferenceF64("Resolve", id)

NextF64Held ==
    \/ DepositF64
    \/ WithdrawalF64
    \/ DisputeF64
    \/ ResolveF64

SpecF64Held == Init /\ [][NextF64Held]_vars

(***************************************************************************)
(* Shorthands of the properties below, all about the latest call.          *)
(***************************************************************************)
Failed == result \in TransactionError

Succeeded(type) == result = "Ok" /\ call.tx_type = type

\* The account of client c in ledger l; a client without an entry has the
\* account get_account would create for it.
AccountOf(l, c) ==
    IF c \in DOMAIN l.accounts THEN l.accounts[c] ELSE Account_new(c)

\* The latest call is a Dispute, Resolve or Chargeback.
Referencing == call.tx_type \in {"Dispute", "Resolve", "Chargeback"}

\* The stored record the latest call named, as the call found it.
Referenced == entry.transactions[call.tx_id]

\* The caller's account before and after the latest call.
Before == AccountOf(entry, call.client_id)
After == AccountOf(ledger, call.client_id)

\* C1: in every reachable ledger state every account has
\* total_funds = available_funds + held_funds.
C1_TotalIsSum ==
    \A c \in DOMAIN ledger.accounts :
        ledger.accounts[c].total_funds =
            ledger.accounts[c].available_funds + ledger.accounts[c].held_funds

\* A chargeback has just moved funds of an account that still holds and owns some.
C1_Witness ==
    /\ Succeeded("Chargeback")
    /\ After.total_funds # 0
    /\ Before.total_funds # After.total_funds

\* C2: a Deposit or Withdrawal that returns an error leaves the transactions
\* map exactly as the call found it.
C2_FailedInsertLeavesNoRecord ==
    (call.tx_type \in {"Deposit", "Withdrawal"} /\ Failed)
        => ledger.transactions = entry.transactions

\* C3: a call that returns an error leaves every account that existed before
\* it, and the disputed flag of every transaction stored before it, unchanged.
C3_ErrorLeavesBalancesAndFlags ==
    Failed =>
        /\ \A c \in DOMAIN entry.accounts :
              /\ c \in DOMAIN ledger.accounts
              /\ ledger.accounts[c] = entry.accounts[c]
        /\ \A t \in DOMAIN entry.transactions :
              /\ t \in DOMAIN ledger.transactions
              /\ ledger.transactions[t].disputed = entry.transactions[t].disputed

\* Client 2 has just disputed a transaction of client 1 and was refused, both
\* having funds and client 1 having a dispute open.
C3_Witness ==
    /\ result = "Unauthorized"
    /\ call.tx_type = "Dispute"
    /\ call.client_id \in DOMAIN entry.accounts
    /\ Before.available_funds # 0
    /\ \E t \in DOMAIN entry.transactions : entry.transactions[t].disputed

\* C4: every call for a client whose account is locked fails with AccountLocked.
C4_LockedAlwaysAccountLocked ==
    (call.client_id \in DOMAIN entry.accounts /\ Before.is_locked)
        => result = "AccountLocked"

\* C5: is_locked never goes from true to false, an account is created
\* unlocked, and it goes from false to true only in a successful Chargeback of
\* that account's client.
C5_LockMonotonic ==
    \A c \in DOMAIN ledger.accounts :
        /\ AccountOf(entry, c).is_locked => ledger.accounts[c].is_locked
        /\ (~AccountOf(entry, c).is_locked /\ ledger.accounts[c].is_locked)
              => (Succeeded("Chargeback") /\ call.client_id = c)

\* A chargeback has just locked one account while another, with a dispute
\* open, stays unlocked.
C5_Witness ==
    /\ Succeeded("Chargeback")
    /\ ~Before.is_locked
    /\ After.is_locked
    /\ \E c \in DOMAIN ledger.accounts :
          /\ c # call.client_id
          /\ ~ledger.accounts[c].is_locked
          /\ ledger.accounts[c].held_funds # 0

\* C6: a Deposit or Withdrawal whose tx_id is already stored fails with
\* DuplicateTransactionID and changes neither the stored records nor any
\* account.
C6_DuplicateRejected ==
    (call.tx_type \in {"Deposit", "Withdrawal"}
        /\ call.tx_id \in DOMAIN entry.transactions)
        => /\ result = "DuplicateTransactionID"
           /\ ledger.transactions = entry.transactions
           /\ ledger.accounts = entry.accounts

\* A withdrawal has just reused the id of a stored, disputed deposit of
\* another amount.
C6_Witness ==
    /\ call.tx_type = "Withdrawal"
    /\ call.tx_id \in DOMAIN entry.transactions
    /\ Referenced.tx_type = "Deposit"
    /\ Referenced.disputed
    /\ Referenced.amount # call.amount
    /\ result = "DuplicateTransactionID"

\* The latest call named a stored transaction that another client owns.
ForeignReference ==
    /\ Referencing
    /\ call.tx_id \in DOMAIN entry.transactions
    /\ Referenced.client_id # call.client_id

\* C7 as stated: a Dispute, Resolve or Chargeback naming a stored transaction
\* of another client fails with Unauthorized, the caller's account being
\* absent, unlocked or locked.
C7_ForeignAlwaysUnauthorized == ForeignReference => result = "Unauthorized"

\* C7 amended: it fails with Unauthorized when the caller's account is absent
\* or unlocked, and with AccountLocked when the caller's account is locked.
C7_ForeignUnauthorizedUnlessLocked ==
    ForeignReference =>
        result = IF Before.is_locked THEN "AccountLocked" ELSE "Unauthorized"

\* A client without an account has just named another client's transaction.
C7_Witness ==
    /\ ForeignReference
    /\ call.client_id \notin DOMAIN entry.accounts
    /\ result = "Unauthorized"

C9_ResolveEffect ==
    Succeeded("Resolve") =>
        LET amount == Referenced.amount[1]
            before == AccountOf(entry, Referenced.client_id)
            after == AccountOf(ledger, Referenced.client_id)
        IN  /\ Referenced.disputed
            /\ ~ledger.transactions[call.tx_id].disputed
            /\ after.available_funds = before.available_funds + amount
            /\ after.held_funds = before.held_funds - amount
            /\ after.total_funds = before.total_funds
            /\ after.is_locked = before.is_locked

\* A dispute of a withdrawal has just been resolved.
C9_Witness ==
    /\ Succeeded("Resolve")
    /\ Referenced.tx_type = "Withdrawal"
    /\ Referenced.amount[1] > 0
    /\ After.available_funds > Before.available_funds

\* C10: a successful Chargeback clears the referenced record's disputed flag,
\* takes its amount from the owner's held_funds and total_funds, leaves
\* available_funds as it was and locks the account.
C10_ChargebackEffect ==
    Succeeded("Chargeback") =>
        LET amount == Referenced.amount[1]
            before == AccountOf(entry, Referenced.client_id)
            after == AccountOf(ledger, Referenced.client_id)
        IN  /\ Referenced.disputed
            /\ ~ledger.transactions[call.tx_id].disputed
            /\ after.held_funds = before.held_funds - amount
            /\ after.total_funds = before.total_funds - amount
            /\ after.available_funds = before.available_funds
            /\ after.is_locked

\* A deposit that was spent has just been charged back: the account is locked
\* with available_funds below zero.
C10_Witness ==
    /\ Succeeded("Chargeback")
    /\ Referenced.tx_type = "Deposit"
    /\ ~Before.is_locked
    /\ After.available_funds < 0
    /\ After.held_funds = 0

\* The latest call named a stored transaction of the caller's own, the
\* caller's account existing and being unlocked.
OwnReference ==
    /\ Referencing
    /\ call.client_id \in DOMAIN entry.accounts
    /\ ~Before.is_locked
    /\ call.tx_id \in DOMAIN entry.transactions
    /\ Referenced.client_id = call.client_id

\* C11: on an unlocked account, a Dispute of the client's own stored
\* transaction that is disputed fails with AlreadyDisputed, and a Resolve or
\* Chargeback of the client's own stored transaction that is not disputed
\* fails with NotDisputed.
C11_DisputeFlagGuards ==
    OwnReference =>
        /\ (call.tx_type = "Dispute" /\ Referenced.disputed)
              => result = "AlreadyDisputed"
        /\ (call.tx_type \in {"Resolve", "Chargeback"} /\ ~Referenced.disputed)
              => result = "NotDisputed"

\* The latest call is a Withdrawal with an unused tx_id and an amount, for a
\* client whose account is unlocked or does not exist yet.
FreshWithdrawal ==
    /\ call.tx_type = "Withdrawal"
    /\ call.tx_id \notin DOMAIN entry.transactions
    /\ call.amount # <<>>
    /\ ~Before.is_locked

\* The first half of C12: such a Withdrawal succeeds exactly when
\* amount <= available_funds and fails with InsufficientFunds otherwise; on
\* success available_funds goes down by the amount and held_funds stays.
WithdrawalRule ==
    FreshWithdrawal =>
        IF call.amount[1] <= Before.available_funds
        THEN /\ result = "Ok"
             /\ After.available_funds = Before.available_funds - call.amount[1]
             /\ After.held_funds = Before.held_funds
        ELSE /\ result = "InsufficientFunds"
             /\ call.client_id \in DOMAIN ledger.accounts
             /\ After = Before

\* C12 as stated: the rule above, and every such Withdrawal for a client with
\* no prior account fails with InsufficientFunds and leaves a zero-balance
\* account.  It is read here for amounts that are not negative, so that what
\* refutes it does not rest on a negative amount being accepted.
C12_WithdrawalRuleAnyAmount ==
    /\ WithdrawalRule
    /\ (FreshWithdrawal /\ call.client_id \notin DOMAIN entry.accounts
           /\ call.amount[1] >= 0)
          => /\ result = "InsufficientFunds"
             /\ call.client_id \in DOMAIN ledger.accounts
             /\ ledger.accounts[call.client_id] = Account_new(call.client_id)

\* C12 amended: the rule above, and such a Withdrawal of an amount above zero
\* for a client with no prior account fails with InsufficientFunds and leaves
\* a zero-balance account.
C12_WithdrawalRulePositiveAmount ==
    /\ WithdrawalRule
    /\ (FreshWithdrawal /\ call.client_id \notin DOMAIN entry.accounts
           /\ call.amount[1] > 0)
          => /\ result = "InsufficientFunds"
             /\ call.client_id \in DOMAIN ledger.accounts
             /\ ledger.accounts[call.client_id] = Account_new(call.client_id)

\* The whole available balance, above zero, has just been withdrawn.
C12_Witness ==
    /\ FreshWithdrawal
    /\ result = "Ok"
    /\ call.amount[1] > 0
    /\ call.amount[1] = Before.available_funds
    /\ After.available_funds = 0

\* C14: after a call with client_id c, whatever its type and result, accounts
\* has an entry for c.
C14_CallerHasAccount ==
    call # NoCall => call.client_id \in DOMAIN ledger.accounts

\* C15: every stored record is a Deposit or a Withdrawal kept under its own
\* tx_id, and append_to never returns Indisputable.
C15_OnlyDepositsAndWithdrawalsStored ==
    /\ \A t \in DOMAIN ledger.transactions :
          /\ ledger.transactions[t].tx_type \in {"Deposit", "Withdrawal"}
          /\ ledger.transactions[t].tx_id = t
    /\ result # "Indisputable"

\* A dispute has just succeeded with a deposit and a withdrawal stored.
C15_Witness ==
    /\ Succeeded("Dispute")
    /\ call.tx_id \in DOMAIN ledger.transactions
    /\ \E t, u \in DOMAIN ledger.transactions :
          /\ ledger.transactions[t].tx_type = "Deposit"
          /\ ledger.transactions[u].tx_type = "Withdrawal"

\* C16: on an unlocked account a Dispute, Resolve or Chargeback whose tx_id is
\* not stored fails with TransactionNotFound.
C16_UnknownTransaction ==
    (Referencing /\ ~Before.is_locked
        /\ call.tx_id \notin DOMAIN entry.transactions)
        => result = "TransactionNotFound"

\* A client with funds has just tried to resolve a transaction that is not
\* stored, another one being stored.
C16_Witness ==
    /\ call.tx_type = "Resolve"
    /\ call.tx_id \notin DOMAIN entry.transactions
    /\ entry.transactions # <<>>
    /\ call.client_id \in DOMAIN entry.accounts
    /\ Before.available_funds > 0
    /\ result = "TransactionNotFound"

\* C17: a Deposit or Withdrawal with an unused tx_id and no amount fails with
\* Malformed and leaves every account as it was.
C17_MissingAmount ==
    (call.tx_type \in {"Deposit", "Withdrawal"}
        /\ call.tx_id \notin DOMAIN entry.transactions
        /\ call.amount = <<>>)
        => /\ result = "Malformed"
           /\ ledger.accounts = entry.accounts

\* A withdrawal without amount has just been refused for a client with funds.
C17_Witness ==
    /\ call.tx_type = "Withdrawal"
    /\ call.amount = <<>>
    /\ call.tx_id \notin DOMAIN entry.transactions
    /\ call.client_id \in DOMAIN entry.accounts
    /\ Before.available_funds > 0
    /\ result = "Malformed"

FreshDepositId == MaxTx + 1
FreshWithdrawalId == MaxTx + 2

\* The ledger after a Deposit of amount a and then a Withdrawal of amount a,
\* both of client c and both with a fresh tx_id, applied to ledger l.
DepositThenWithdrawal(l, c, a) ==
    LET deposit == [tx_type |-> "Deposit", client_id |-> c,
                    tx_id |-> FreshDepositId, amount |-> <<a>>,
                    disputed |-> FALSE]
        withdrawal == [tx_type |-> "Withdrawal", client_id |-> c,
                       tx_id |-> FreshWithdrawalId, amount |-> <<a>>,
                       disputed |-> FALSE]
    IN  append_to(withdrawal, append_to(deposit, l).ledger).ledger

\* C13: in every reachable state, for every client whose account is
\* unlocked, a Deposit of an amount a followed by a Withdrawal of the same
\* amount a, both with fresh tx_ids, returns the account's available_funds
\* to the value it had before the Deposit.  Amounts above zero are enough to
\* refute it.
C13_DepositThenWithdrawalRestores ==
    \A c \in ClientIds : \A a \in 1..MaxAmount :
        ~AccountOf(ledger, c).is_locked =>
            AccountOf(DepositThenWithdrawal(ledger, c, a), c).available_funds
                = AccountOf(ledger, c).available_funds

\* The ledger after every record of rows has been applied in order, whatever
\* each call returned.
RECURSIVE Replay(_, _)
Replay(l, rows) ==
    IF rows = <<>> THEN l
    ELSE Replay(append_to(Head(rows).val, l).ledger, Tail(rows))

\* Every row of the file parses.
AllRowsParse == \A i \in 1..Len(input) : input[i].ok

\* The records applied so far are the first rows of the file, each once and
\* in the order of the file, and each call returned Ok or one of the nine
\* errors.
AppliedInOrder ==
    /\ Len(applied) <= Len(input)
    /\ \A i \in 1..Len(applied) :
        /\ input[i].ok
        /\ applied[i].tx = input[i].val
        /\ applied[i].result \in {"Ok"} \cup TransactionError

\* The run has ended: every record was applied and the accounts written are
\* those of the ledger all the records give, errors included.
RunEnded ==
    /\ pc = "done"
    /\ Len(applied) = Len(input)
    /\ output =
         LET final == Replay(Ledger_new(<<>>, <<>>), input).accounts
         IN  {final[c] : c \in DOMAIN final}

\* C19: main applies every record of the input exactly once and in input
\* order, an error returned for one record does not keep the later records
\* from being applied, every one of the nine conditions comes back as a
\* returned TransactionError, and after the last record the run ends with
\* the accounts map written out.  (A row that does not parse is no record:
\* the reader's part, on which main panics.)
C19_ErrorsNeverStopTheRun ==
    /\ []AppliedInOrder
    /\ (AllRowsParse ~> RunEnded)

\* A run has ended in which a record was refused and a later one applied
\* with success.
C19_Witness ==
    /\ pc = "done"
    /\ \E i \in 1..Len(applied) : \E j \in (i + 1)..Len(applied) :
        /\ applied[i].result \in TransactionError
        /\ applied[j].result = "Ok"

\* The available balance, in tenths, that exact decimal arithmetic gives
\* after the rows of log: a deposit adds its amount, a withdrawal takes its
\* amount where amount <= available and changes nothing otherwise.
RECURSIVE DecimalAvailable(_)
DecimalAvailable(log) ==
    IF log = <<>> THEN 0
    ELSE LET before == DecimalAvailable(SubSeq(log, 1, Len(log) - 1))
             row == log[Len(log)].tx
         IN  IF row.tx_type = "Deposit" THEN before + row.amount[1]
             ELSE IF row.amount[1] <= before THEN before - row.amount[1]
             ELSE before

\* C20: balance arithmetic and the amount <= available comparison are exact
\* decimal arithmetic, so nothing drifts: after any run of deposits and
\* withdrawals the balances the ledger holds are the exact decimal balances
\* (as the reader would give them from their decimal text), and a withdrawal
\* is refused exactly when its amount is above the exact balance.
C20_BalancesAreExactDecimals ==
    \A c \in DOMAIN ledger.accounts :
        /\ ledger.accounts[c].available_funds
             = f64_from_tenths(DecimalAvailable(applied))
        /\ ledger.accounts[c].total_funds
             = f64_from_tenths(DecimalAvailable(applied))
        /\ \A i \in 1..Len(applied) :
             applied[i].result = "InsufficientFunds"
               <=> /\ applied[i].tx.tx_type = "Withdrawal"
                   /\ applied[i].tx.amount[1]
                        > DecimalAvailable(SubSeq(applied, 1, i - 1))

\* Record i of the run was a Deposit or Withdrawal of tx_id t that append_to
\* accepted.
AcceptedAt(i, t) ==
    /\ applied[i].tx.tx_type \in {"Deposit", "Withdrawal"}
    /\ applied[i].tx.tx_id = t
    /\ applied[i].result = "Ok"

\* Record i of the run was a Deposit or Withdrawal of tx_id t that append_to
\* rejected as Malformed, InsufficientFunds or AccountLocked.
RejectedAt(i, t) ==
    /\ applied[i].tx.tx_type \in {"Deposit", "Withdrawal"}
    /\ applied[i].tx.tx_id = t
    /\ applied[i].result \in {"Malformed", "InsufficientFunds", "AccountLocked"}

\* C21: every record of the transactions map is a Deposit or Withdrawal of
\* the run whose append_to returned Ok; and a Dispute naming the tx_id of a
\* Deposit or Withdrawal that was rejected (and that no accepted record
\* carries) fails with TransactionNotFound and holds no funds.
C21_StoredRecordsWereAccepted ==
    /\ \A t \in DOMAIN ledger.transactions :
         \E i \in 1..Len(applied) : AcceptedAt(i, t)
    /\ \A j \in 1..Len(applied) :
         (/\ applied[j].tx.tx_type = "Dispute"
          /\ \E i \in 1..(j - 1) : RejectedAt(i, applied[j].tx.tx_id)
          /\ \A i \in 1..(j - 1) : ~AcceptedAt(i, applied[j].tx.tx_id))
            => applied[j].result = "TransactionNotFound"

\* The f64 sum of the amounts of the stored records with tx_id id or above
\* that are disputed, added in the order of their tx_ids.
RECURSIVE DisputedSumFrom(_)
DisputedSumFrom(id) ==
    IF id > MaxTransfers THEN Zero_f64
    ELSE IF id \in DOMAIN ledger.transactions
            /\ ledger.transactions[id].disputed
         THEN f64_add(ledger.transactions[id].amount[1],
                      DisputedSumFrom(id + 1))
         ELSE DisputedSumFrom(id + 1)

\* C22: in every reachable state the held_funds of a client's account is the
\* sum of the amounts of the client's stored records that are disputed, zero
\* when there are none.  Read here for the balances as the code holds them,
\* with one client, and with the sum taken in f64 as well.
C22_HeldIsSumOfDisputed ==
    \A c \in DOMAIN ledger.accounts :
        ledger.accounts[c].held_funds = DisputedSumFrom(1)

\* The disputed flag of a stored record changes only at a call that names the
\* record: it is set only by a successful Dispute and cleared only by a
\* successful Resolve or Chargeback; a record is stored undisputed.
FlagsFollowTheLifeCycle ==
    \A t \in DOMAIN ledger.transactions :
        IF t \in DOMAIN entry.transactions
        THEN /\ (~entry.transactions[t].disputed
                   /\ ledger.transactions[t].disputed)
                  => (Succeeded("Dispute") /\ call.tx_id = t)
             /\ (entry.transactions[t].disputed
                   /\ ~ledger.transactions[t].disputed)
                  => /\ Succeeded("Resolve") \/ Succeeded("Chargeback")
                     /\ call.tx_id = t
        ELSE ~ledger.transactions[t].disputed

\* C23: per stored transaction, undisputed becomes disputed only by a
\* successful Dispute and disputed becomes undisputed only by a successful
\* Resolve or Chargeback; a transaction a Resolve has succeeded on is
\* disputed again by the next Dispute its owner makes of it while unlocked;
\* and no Dispute of a transaction succeeds after a Chargeback of it has.
C23_DisputeLifeCycle ==
    /\ FlagsFollowTheLifeCycle
    /\ (/\ call.tx_type = "Dispute"
        /\ OwnReference
        /\ call.tx_id \in settled.resolved
        /\ ~Referenced.disputed)
          => /\ result = "Ok"
             /\ ledger.transactions[call.tx_id].disputed
    /\ Succeeded("Dispute") => call.tx_id \notin settled.charged_back

\* A transaction has been disputed, resolved, disputed again and charged
\* back, every call with success.
C23_Witness ==
    /\ Succeeded("Chargeback")
    /\ call.tx_id \in settled.resolved
    /\ call.tx_id \in settled.charged_back

\* C24: once an account is locked it is frozen.  Call by call: where the
\* latest call found client c's account locked, it left the account's
\* available_funds, held_funds and total_funds as they were, left the
\* disputed flag of every stored transaction of c as it was, and added no
\* transaction of c to the transactions map.
C24_LockedAccountFrozen ==
    \A c \in DOMAIN entry.accounts :
        entry.accounts[c].is_locked =>
            /\ ledger.accounts[c].available_funds
                 = entry.accounts[c].available_funds
            /\ ledger.accounts[c].held_funds = entry.accounts[c].held_funds
            /\ ledger.accounts[c].total_funds = entry.accounts[c].total_funds
            /\ \A t \in DOMAIN entry.transactions :
                 entry.transactions[t].client_id = c
                   => ledger.transactions[t].disputed
                        = entry.transactions[t].disputed
            /\ \A t \in DOMAIN ledger.transactions :
                 ledger.transactions[t].client_id = c
                   => t \in DOMAIN entry.transactions

\* A Dispute and then a Resolve of stored transaction t, both by client c,
\* applied to ledger l: what each call returns and the ledger they leave.
DisputeThenResolve(l, c, t) ==
    LET dispute == [tx_type |-> "Dispute", client_id |-> c, tx_id |-> t,
                    amount |-> <<>>, disputed |-> FALSE]
        resolve == [tx_type |-> "Resolve", client_id |-> c, tx_id |-> t,
                    amount |-> <<>>, disputed |-> FALSE]
        first == append_to(dispute, l)
        second == append_to(resolve, first.ledger)
    IN  [disputed |-> first.result, resolved |-> second.result,
         ledger |-> second.ledger]

\* C25: in every reachable state, a successful Dispute followed at once by a
\* successful Resolve of the same transaction leaves the owner's account as
\* it was before the Dispute (available_funds, held_funds, total_funds and
\* is_locked) and the transaction undisputed, for a Deposit and for a
\* Withdrawal.  Amounts above zero are enough to refute it.
C25_DisputeThenResolveRestores ==
    \A c \in ClientIds : \A t \in DOMAIN ledger.transactions :
        LET pair == DisputeThenResolve(ledger, c, t)
        IN  (/\ pair.disputed = "Ok"
             /\ pair.resolved = "Ok"
             /\ ledger.transactions[t].amount[1] > 0)
              => /\ AccountOf(pair.ledger, c) = AccountOf(ledger, c)
                 /\ ~pair.ledger.transactions[t].disputed

\* Client c has the same entry in the accounts map, or none, in both ledgers.
SameAccount(before, after, c) ==
    /\ c \in DOMAIN after.accounts <=> c \in DOMAIN before.accounts
    /\ c \in DOMAIN before.accounts => after.accounts[c] = before.accounts[c]

\* The record stored under t is the same in both ledgers.
SameRecord(before, after, t) ==
    /\ t \in DOMAIN after.transactions
    /\ after.transactions[t] = before.transactions[t]

\* C26: a call of client c leaves the account of every other client as it
\* was (no entry made, none removed, no field changed) and leaves every
\* stored record owned by another client as it was, disputed flag included;
\* a successful Dispute, Resolve or Chargeback moreover leaves every stored
\* record but the referenced one as it was and stores none.
C26_OtherClientsUntouched ==
    call # NoCall =>
        /\ \A c \in ClientIds \ {call.client_id} : SameAccount(entry, ledger, c)
        /\ \A t \in DOMAIN entry.transactions :
               entry.transactions[t].client_id # call.client_id
                   => SameRecord(entry, ledger, t)
        /\ (Referencing /\ result = "Ok") =>
               /\ DOMAIN ledger.transactions = DOMAIN entry.transactions
               /\ \A t \in DOMAIN entry.transactions \ {call.tx_id} :
                      SameRecord(entry, ledger, t)

\* A dispute has just succeeded while another client has funds and a stored
\* record of its own.
C26_Witness ==
    /\ Succeeded("Dispute")
    /\ \E c \in DOMAIN entry.accounts \ {call.client_id} :
           /\ entry.accounts[c].total_funds # 0
           /\ \E t \in DOMAIN entry.transactions :
                  entry.transactions[t].client_id = c

\* C27: right after every successful Withdrawal the caller's available_funds
\* is at least zero, and whenever a call takes the caller's available_funds
\* from at least zero to below zero, that call is a successful Dispute of a
\* Deposit.
C27_NegativeOnlyByDisputedDeposit ==
    /\ Succeeded("Withdrawal") => After.available_funds >= 0
    /\ (/\ call # NoCall
        /\ Before.available_funds >= 0
        /\ After.available_funds < 0)
         => /\ Succeeded("Dispute")
            /\ Referenced.tx_type = "Deposit"

\* C28: whatever amount the record carries, a successful Deposit leaves the
\* caller's available_funds and total_funds at least what they were, and a
\* successful Withdrawal leaves them at most what they were.
C28_DepositsAddWithdrawalsTake ==
    /\ Succeeded("Deposit") =>
           /\ After.available_funds >= Before.available_funds
           /\ After.total_funds >= Before.total_funds
    /\ Succeeded("Withdrawal") =>
           /\ After.available_funds <= Before.available_funds
           /\ After.total_funds <= Before.total_funds

=============================================================================
